---- MODULE Spec2Model ----
(***************************************************************************)
(* Model of the cube document engine of monza_cube_designer               *)
(* (src/cube_manager.py, served by src/main.py).                          *)
(*                                                                         *)
(* The persisted document is an element tree: a Schema root whose          *)
(* children are Cube elements.  Every handler loads the file, works on the *)
(* loaded tree and, on its persisting paths, reformats and rewrites it.    *)
(*                                                                         *)
(* Strings are sequences of fragments (a fragment is a run of characters   *)
(* that the XPath tokenizer of xml.etree treats as a unit), so that the    *)
(* path text built by an f-string from a cube name is something the model  *)
(* tokenizes, as ElementPath does, instead of comparing names directly.    *)
(* Optional values are sequences of length at most one.                    *)
(***************************************************************************)
EXTENDS Integers, Sequences, FiniteSets, TLC

VARIABLES
    file,      \* the persisted document: [exists, root]
    lastOp,    \* the handler that ran last ("none" before the first call)
    lastName,  \* its cube_name path parameter
    lastReq,   \* its request body
    lastRes,   \* its outcome: [status, error, out]
    prevFile,  \* the persisted document when that handler was entered
    workers    \* the calls of concurrent callers, each at its position

vars == <<file, lastOp, lastName, lastReq, lastRes, prevFile, workers>>

-----------------------------------------------------------------------------
(* Strings and optional values *)

Str(x) == <<x>>
EmptyStr == <<>>
None == <<>>
Some(v) == <<v>>
IsNone(o) == Len(o) = 0

\* Python truthiness of an Optional[str]: None and "" are both falsy.
Truthy(o) == Len(o) = 1 /\ Len(o[1]) > 0

\* str(b).lower()
BoolStr(b) == IF b THEN Str("true") ELSE Str("false")

RECURSIVE Flatten(_)
Flatten(ss) ==
    IF Len(ss) = 0 THEN <<>> ELSE Head(ss) \o Flatten(Tail(ss))

\* sep.join(names)
RECURSIVE Join(_, _)
Join(sep, names) ==
    IF Len(names) = 0 THEN EmptyStr
    ELSE IF Len(names) = 1 THEN names[1]
    ELSE names[1] \o sep \o Join(sep, Tail(names))

-----------------------------------------------------------------------------
(* Element trees.  text and tail are whitespace codes: NoText is None,    *)
(* NonBlank is some text with a non-space character, n >= 0 is a newline  *)
(* followed by n spaces.                                                   *)

NoText == 0 - 1
NonBlank == 0 - 2

Element(tag, attrib, kids) ==
    [tag |-> tag, attrib |-> attrib, text |-> NoText, tail |-> NoText, kids |-> kids]

\* a SubElement that inserts the child before its siblings
SubElementFirst(parent, child) == [parent EXCEPT !.kids = <<child>> \o @]

\* ET.SubElement(parent, tag) followed by the set() calls and the children
SubElement(parent, child) == [parent EXCEPT !.kids = Append(@, child)]

HasAttr(elem, key) == \E i \in 1..Len(elem.attrib) : elem.attrib[i][1] = key

\* elem.get(key, default)
GetAttr(elem, key, default) ==
    IF HasAttr(elem, key)
    THEN elem.attrib[CHOOSE i \in 1..Len(elem.attrib) : elem.attrib[i][1] = key][2]
    ELSE default

\* All descendants of elem in document order (the ".//" axis).
RECURSIVE Descendants(_)
Descendants(elem) ==
    Flatten([i \in 1..Len(elem.kids) |-> <<elem.kids[i]>> \o Descendants(elem.kids[i])])

-----------------------------------------------------------------------------
(* ElementPath: root.find(f".//Cube[@name='{cube_name}']").  The name is  *)
(* pasted between two quotes; the tokenizer then reads quoted literals,   *)
(* so a quote inside the name ends the literal early.                      *)

Quote == "'"
NamePredicate == "][@name="

\* the text that follows "[@name=" in the path, up to the closing "]"
CubePath(cube_name) == <<Quote>> \o cube_name \o <<Quote>>

FirstQuote(s) ==
    IF \E i \in 1..Len(s) : s[i] = Quote
    THEN CHOOSE i \in 1..Len(s) : s[i] = Quote /\ \A j \in 1..(i-1) : s[j] # Quote
    ELSE 0

\* The literals of the predicates [@name='v1'][@name='v2']... that the text
\* s (starting just after an opening quote) spells, or ok = FALSE where
\* ElementPath raises SyntaxError("invalid predicate").
RECURSIVE PredicateValues(_)
PredicateValues(s) ==
    LET p == FirstQuote(s) IN
    IF p = 0 THEN [ok |-> FALSE, values |-> <<>>]
    ELSE LET lit == SubSeq(s, 1, p - 1)
             rest == SubSeq(s, p + 1, Len(s))
         IN  IF Len(rest) = 0 THEN [ok |-> TRUE, values |-> <<lit>>]
             ELSE IF Len(rest) >= 2 /\ rest[1] = NamePredicate /\ rest[2] = Quote
             THEN LET more == PredicateValues(SubSeq(rest, 3, Len(rest)))
                  IN  [ok |-> more.ok, values |-> <<lit>> \o more.values]
             ELSE [ok |-> FALSE, values |-> <<>>]

CompilePath(cube_name) == PredicateValues(Tail(CubePath(cube_name)))

\* root.findall('.//Cube')
FindAllCubes(root) == SelectSeq(Descendants(root), LAMBDA e : e.tag = "Cube")

\* the elements selected by .//Cube[@name='...'] with the compiled literals
SelectCubes(root, values) ==
    SelectSeq(FindAllCubes(root),
              LAMBDA e : /\ HasAttr(e, "name")
                         /\ \A i \in 1..Len(values) :
                                GetAttr(e, "name", EmptyStr) = values[i])

UnnamedCube == Str("Unnamed Cube")

\* [c.get('name', 'Unnamed Cube') for c in root.findall('.//Cube')]
AvailableCubes(root) ==
    LET cubes == FindAllCubes(root)
    IN  [i \in 1..Len(cubes) |-> GetAttr(cubes[i], "name", UnnamedCube)]

-----------------------------------------------------------------------------
(* Formatter and document store *)

\* not s or not s.strip()
IsBlank(s) == s # NonBlank

\* "\n" + level*"  ", as a whitespace code
Indentation(level) == 2 * level

\* an indent that appends the indentation to the whitespace already there
\* (elem.text += ...) instead of replacing it
RECURSIVE indent_append(_, _)
indent_append(elem, level) ==
    LET i == Indentation(level)
        Added(old, new) == IF old = NoText THEN new ELSE old + new
    IN  IF Len(elem.kids) > 0
        THEN [elem EXCEPT
                 !.text = IF IsBlank(@) THEN Added(@, i + 2) ELSE @,
                 !.tail = IF IsBlank(@) THEN Added(@, i) ELSE @,
                 !.kids = [j \in 1..Len(elem.kids) |->
                               indent_append(elem.kids[j], level + 1)]]
        ELSE IF level # 0 /\ IsBlank(elem.tail)
             THEN [elem EXCEPT !.tail = Added(@, i)]
             ELSE elem

RECURSIVE indent(_, _)
indent(elem, level) ==
    LET i == Indentation(level) IN
    IF Len(elem.kids) > 0
    THEN LET text1 == IF IsBlank(elem.text) THEN i + 2 ELSE elem.text
             tail1 == IF IsBlank(elem.tail) THEN i ELSE elem.tail
             kids1 == [j \in 1..Len(elem.kids) |-> indent(elem.kids[j], level + 1)]
             tail2 == IF IsBlank(tail1) THEN i ELSE tail1
         IN  [elem EXCEPT !.text = text1, !.tail = tail2, !.kids = kids1]
    ELSE IF level # 0 /\ IsBlank(elem.tail)
         THEN [elem EXCEPT !.tail = i]
         ELSE elem

format_xml(root) == indent(root, 0)

\* ET.parse(path).getroot(): whitespace after the root's end tag is not
\* character data of any element, so the root is loaded with tail None.
parse_xml(f) == [f.root EXCEPT !.tail = NoText]

\* tree.write(path): the whole tree replaces the file content
write(root) == [exists |-> TRUE, root |-> root]

\* a file that holds a proper prefix of a document: what open(path, "w")
\* followed by an interrupted serialization leaves behind
Truncated == [exists |-> TRUE, root |-> Element("", <<>>, <<>>)]

\* ET.parse accepts the content of the file
WellFormed(f) == f.root.tag # ""

\* how tree.write can end: the document is written; the file cannot be
\* opened for writing; the file is opened, which empties it, and the
\* serialization stops before the document is complete
WriteOutcomes == {"written", "not opened", "interrupted"}

\* a write that adds the last cube of the tree to the document the file
\* holds at that moment instead of replacing the document
tree_write_merging(f, root, outcome) ==
    CASE outcome = "written" ->
             IF WellFormed(f) /\ Len(root.kids) > 0
             THEN write(format_xml(SubElement(parse_xml(f), root.kids[Len(root.kids)])))
             ELSE write(root)
      [] outcome = "not opened" -> f
      [] outcome = "interrupted" -> Truncated

\* tree.write(self.xml_file_path, ...): the file after the call
tree_write(f, root, outcome) ==
    CASE outcome = "written" -> write(root)
      [] outcome = "not opened" -> f
      [] outcome = "interrupted" -> Truncated

-----------------------------------------------------------------------------
(* Request models (pydantic).  A raw request is the JSON body; the model  *)
(* classes fill the defaults of the fields the body leaves out.           *)

Level(raw) ==
    [name |-> raw.name, column |-> raw.column,
     type |-> IF IsNone(raw.type) THEN Str("String") ELSE raw.type[1],
     uniqueMembers |-> raw.uniqueMembers]

Hierarchy(raw) ==
    [name |-> raw.name,
     hasAll |-> IF IsNone(raw.hasAll) THEN TRUE ELSE raw.hasAll[1],
     allMemberName |-> raw.allMemberName,
     levels |-> [i \in 1..Len(raw.levels) |-> Level(raw.levels[i])]]

Dimension(raw) ==
    [name |-> raw.name,
     hierarchies |-> [i \in 1..Len(raw.hierarchies) |-> Hierarchy(raw.hierarchies[i])]]

Measure(raw) ==
    [name |-> raw.name, column |-> raw.column,
     aggregator |-> IF IsNone(raw.aggregator) THEN Str("sum") ELSE raw.aggregator[1],
     formatString |-> raw.formatString]

CreateCubeRequest(raw) ==
    [cube_name |-> raw.cube_name, table_name |-> raw.table_name,
     dimensions |-> [i \in 1..Len(raw.dimensions) |-> Dimension(raw.dimensions[i])],
     measures |-> [i \in 1..Len(raw.measures) |-> Measure(raw.measures[i])]]

\* the constraints of the models: min_items=1 on every list, nothing on
\* the strings
MinItems == 1

ValidHierarchy(raw) == Len(raw.levels) >= MinItems

ValidDimension(raw) ==
    /\ Len(raw.hierarchies) >= MinItems
    /\ \A i \in 1..Len(raw.hierarchies) : ValidHierarchy(raw.hierarchies[i])

ValidRequest(raw) ==
    /\ Len(raw.dimensions) >= MinItems
    /\ Len(raw.measures) >= MinItems
    /\ \A i \in 1..Len(raw.dimensions) : ValidDimension(raw.dimensions[i])

-----------------------------------------------------------------------------
(* Cube builder: the element create_cube builds from a request *)

\* elem.set(key, value) when the optional string is truthy
SetIfTruthy(key, o) == IF Truthy(o) THEN << <<key, o[1]>> >> ELSE <<>>

\* a set() guarded by the truth of the flag instead of "is not None"
SetIfTrue(key, o) ==
    IF Len(o) = 1 /\ o[1] THEN << <<key, BoolStr(o[1])>> >> ELSE <<>>

\* elem.set(key, str(value).lower()) when the optional flag is not None
SetIfNotNone(key, o) == IF ~IsNone(o) THEN << <<key, BoolStr(o[1])>> >> ELSE <<>>

LevelElem(level) ==
    Element("Level",
            << <<"name", level.name>>, <<"column", level.column>>,
               <<"type", level.type>> >>
                \o SetIfNotNone("uniqueMembers", level.uniqueMembers),
            <<>>)

HierarchyElem(hierarchy) ==
    Element("Hierarchy",
            SetIfTruthy("name", hierarchy.name)
                \o << <<"hasAll", BoolStr(hierarchy.hasAll)>> >>
                \o SetIfTruthy("allMemberName", hierarchy.allMemberName),
            [i \in 1..Len(hierarchy.levels) |-> LevelElem(hierarchy.levels[i])])

DimensionElem(dim) ==
    Element("Dimension", << <<"name", dim.name>> >>,
            [i \in 1..Len(dim.hierarchies) |-> HierarchyElem(dim.hierarchies[i])])

MeasureElem(measure) ==
    Element("Measure",
            << <<"name", measure.name>>, <<"column", measure.column>>,
               <<"aggregator", measure.aggregator>> >>
                \o SetIfTruthy("formatString", measure.formatString),
            <<>>)

TableElem(table_name) == Element("Table", << <<"name", table_name>> >>, <<>>)

CubeElem(cube_request) ==
    Element("Cube", << <<"name", cube_request.cube_name>> >>,
            <<TableElem(cube_request.table_name)>>
                \o [i \in 1..Len(cube_request.dimensions) |->
                        DimensionElem(cube_request.dimensions[i])]
                \o [i \in 1..Len(cube_request.measures) |->
                        MeasureElem(cube_request.measures[i])])

-----------------------------------------------------------------------------
(* CubeManager: each handler maps the persisted file to an outcome and    *)
(* the file it leaves.  An HTTPException carries its status; any other    *)
(* exception leaves the handler uncaught and is answered with status 500. *)

Return(f, out) == [res |-> [status |-> 200, error |-> "none", out |-> out], file |-> f]

Raise(f, status, error, detail) ==
    [res |-> [status |-> status, error |-> error, out |-> detail], file |-> f]

\* _validate_file_exists
FileNotFound(f) == Raise(f, 404, "FileNotFound", Str("XML file not found"))

ParseError(f) == Raise(f, 500, "ParseError", Str("Error parsing XML file"))

WriteError(f) == Raise(f, 500, "WriteError", Str("Error writing XML file"))

InvalidPredicate(f) == Raise(f, 500, "SyntaxError", Str("invalid predicate"))

NotFoundDetail(cube_name, root) ==
    Str("Cube '") \o cube_name \o Str("' not found. Available cubes: ")
        \o Join(Str(", "), AvailableCubes(root))

\* an enumerate_cubes that reformats and rewrites the file it read
enumerate_cubes_rewriting(f) ==
    IF ~f.exists THEN FileNotFound(f)
    ELSE IF ~WellFormed(f) THEN ParseError(f)
    ELSE LET root == parse_xml(f)
             cubes == FindAllCubes(root)
         IN  Return(write(format_xml(root)),
                    [count |-> Len(cubes), cubes |-> AvailableCubes(root)])

enumerate_cubes(f) ==
    IF ~f.exists THEN FileNotFound(f)
    ELSE IF ~WellFormed(f) THEN ParseError(f)
    ELSE LET root == parse_xml(f)
             cubes == FindAllCubes(root)
         IN  Return(f, [count |-> Len(cubes), cubes |-> AvailableCubes(root)])

get_cube_by_name(f, cube_name) ==
    IF ~f.exists THEN FileNotFound(f)
    ELSE IF ~WellFormed(f) THEN ParseError(f)
    ELSE LET root == parse_xml(f)
             path == CompilePath(cube_name)
         IN  IF ~path.ok THEN InvalidPredicate(f)
             ELSE LET found == SelectCubes(root, path.values)
                  IN  IF Len(found) = 0
                      THEN Raise(f, 404, "NotFound", NotFoundDetail(cube_name, root))
                      ELSE Return(f, [cube_name |-> cube_name, xml |-> found[1]])

\* schema.remove(child): child is the element object appended last
RemoveChild(parent, child) ==
    LET at == CHOOSE i \in 1..Len(parent.kids) :
                  /\ parent.kids[i] = child
                  /\ \A j \in (i+1)..Len(parent.kids) : parent.kids[j] # child
    IN  [parent EXCEPT !.kids = SubSeq(@, 1, at - 1) \o SubSeq(@, at + 1, Len(@))]

create_cube(f, cube_request) ==
    IF ~f.exists THEN FileNotFound(f)
    ELSE IF ~WellFormed(f) THEN ParseError(f)
    ELSE LET root == parse_xml(f)
             path == CompilePath(cube_request.cube_name)
         IN  IF ~path.ok THEN InvalidPredicate(f)
             ELSE IF Len(SelectCubes(root, path.values)) > 0
             THEN Raise(f, 400, "Conflict",
                        Str("Cube '") \o cube_request.cube_name \o Str("' already exists"))
             ELSE LET \* the documents of this model have the Schema as root, so
                      \* root.find('.//Schema') is None and schema is root
                      schema == root
                      existing_cubes == FindAllCubes(schema)
                      cube_elem == CubeElem(cube_request)
                      built == SubElement(schema, cube_elem)
                      moved == IF Len(existing_cubes) > 0
                               THEN SubElement(RemoveChild(built, cube_elem), cube_elem)
                               ELSE built
                  IN  Return(write(format_xml(moved)),
                             [cube_name |-> cube_request.cube_name,
                              table_name |-> cube_request.table_name,
                              dimensions_count |-> Len(cube_request.dimensions),
                              measures_count |-> Len(cube_request.measures)])

\* cube.getparent() is not a method of xml.etree.ElementTree.Element: the
\* call raises AttributeError outside the try block, before the removal,
\* the formatting and the write, which are therefore never reached.
delete_cube(f, cube_name) ==
    IF ~f.exists THEN FileNotFound(f)
    ELSE IF ~WellFormed(f) THEN ParseError(f)
    ELSE LET root == parse_xml(f)
             path == CompilePath(cube_name)
         IN  IF ~path.ok THEN InvalidPredicate(f)
             ELSE IF Len(SelectCubes(root, path.values)) = 0
             THEN Raise(f, 404, "NotFound", NotFoundDetail(cube_name, root))
             ELSE Raise(f, 500, "AttributeError",
                        Str("'xml.etree.ElementTree.Element' object has no attribute 'getparent'"))

update_cube(f, cube_name, cube_request) ==
    LET deleted == delete_cube(f, cube_name)
    IN  IF deleted.res.status # 200 THEN deleted
        ELSE create_cube(deleted.file, cube_request)

\* FastAPI answers a body that fails the request model before the route
\* function is called
RequestValidationError(f) ==
    Raise(f, 422, "ValidationError", Str("value_error.list.min_items"))

-----------------------------------------------------------------------------
(* Inputs: cube names and request bodies *)

NameA == Str("a")
NameB == Str("b")
\* a'b : one quote inside the name
NameQuote == <<"a", Quote, "b">>
\* a'][@name='b and a'][@name='a : the name closes the predicate and opens another
NameAandB == <<"a", Quote, NamePredicate, Quote, "b">>
NameAandA == <<"a", Quote, NamePredicate, Quote, "a">>

CubeNames == {EmptyStr, NameA, NameB, NameQuote, NameAandB, NameAandA}

LevelYear == [name |-> Str("Year"), column |-> Str("yr"), type |-> None, uniqueMembers |-> None]
LevelMonth ==
    [name |-> Str("Month"), column |-> Str("mo"), type |-> Some(Str("Numeric")),
     uniqueMembers |-> Some(FALSE)]
LevelDay ==
    [name |-> Str("Day"), column |-> Str("dy"), type |-> Some(Str("String")),
     uniqueMembers |-> Some(TRUE)]

\* every optional field left out
HierarchyPlain ==
    [name |-> None, hasAll |-> None, allMemberName |-> None, levels |-> <<LevelYear>>]
\* every optional field supplied
HierarchyFull ==
    [name |-> Some(Str("Calendar")), hasAll |-> Some(FALSE),
     allMemberName |-> Some(Str("All")), levels |-> <<LevelMonth, LevelYear>>]
\* optional strings supplied as ""
HierarchyBlank ==
    [name |-> Some(EmptyStr), hasAll |-> Some(TRUE), allMemberName |-> Some(EmptyStr),
     levels |-> <<LevelDay>>]
HierarchyNoLevels ==
    [name |-> None, hasAll |-> None, allMemberName |-> None, levels |-> <<>>]

DimTime == [name |-> Str("Time"), hierarchies |-> <<HierarchyPlain>>]
DimDate == [name |-> Str("Date"), hierarchies |-> <<HierarchyFull, HierarchyBlank>>]
DimNoHierarchies == [name |-> Str("Time"), hierarchies |-> <<>>]
DimNoLevels == [name |-> Str("Time"), hierarchies |-> <<HierarchyNoLevels>>]

MeasureRevenue ==
    [name |-> Str("Revenue"), column |-> Str("rev"), aggregator |-> None,
     formatString |-> None]
MeasureUnits ==
    [name |-> Str("Units"), column |-> Str("qty"), aggregator |-> Some(Str("avg")),
     formatString |-> Some(Str("#,###"))]
MeasureCost ==
    [name |-> Str("Cost"), column |-> Str("cst"), aggregator |-> Some(Str("sum")),
     formatString |-> Some(EmptyStr)]

Request(cube_name, table_name, dimensions, measures) ==
    [cube_name |-> cube_name, table_name |-> table_name,
     dimensions |-> dimensions, measures |-> measures]

Small(cube_name) == Request(cube_name, Str("sales_fact"), <<DimTime>>, <<MeasureRevenue>>)
Large(cube_name) ==
    Request(cube_name, Str("orders_fact"), <<DimDate, DimTime>>, <<MeasureUnits, MeasureCost>>)

ValidRequests ==
    {Small(NameA), Large(NameA), Large(NameB), Small(NameQuote), Small(NameAandB),
     Request(EmptyStr, EmptyStr, <<DimTime>>, <<MeasureRevenue>>)}

InvalidRequests ==
    {Request(NameB, Str("sales_fact"), <<>>, <<MeasureRevenue>>),
     Request(NameB, Str("sales_fact"), <<DimTime>>, <<>>),
     Request(NameB, Str("sales_fact"), <<DimNoHierarchies>>, <<MeasureRevenue>>),
     Request(NameB, Str("sales_fact"), <<DimTime, DimNoLevels>>, <<MeasureRevenue>>)}

Requests == ValidRequests \cup InvalidRequests

\* the request bodies sent to PUT /cubes/{cube_name}
UpdateRequests ==
    {Large(NameA), Large(NameB),
     Request(NameB, Str("sales_fact"), <<>>, <<MeasureRevenue>>)}

NoRequest == Request(EmptyStr, EmptyStr, <<>>, <<>>)

\* the most cubes a document of the model holds
MaxCubes == 3

-----------------------------------------------------------------------------
(* The service *)

EmptySchema == Element("Schema", << <<"name", Str("Monza")>> >>, <<>>)

\* the files the service can be started on: none, an empty Schema, an
\* uploaded, unformatted Schema with one cube, and a Schema with two cubes
\* as the service writes it
InitFiles ==
    {[exists |-> FALSE, root |-> EmptySchema],
     [exists |-> TRUE, root |-> EmptySchema],
     [exists |-> TRUE,
      root |-> SubElement(EmptySchema, CubeElem(CreateCubeRequest(Small(NameA))))],
     write(format_xml(SubElement(
               SubElement(EmptySchema, CubeElem(CreateCubeRequest(Small(NameA)))),
               CubeElem(CreateCubeRequest(Large(NameB))))))}

\* the concurrent callers of the CubeManager the model follows
NumWorkers == 2
Workers == 1..NumWorkers

NoFile == [exists |-> FALSE, root |-> EmptySchema]

\* a call not yet made.  loaded and persisted are the places of the call's
\* load and of its write in the order of all loads and writes (0: not yet)
Idle ==
    [pc |-> "idle", op |-> "none", name |-> EmptyStr, req |-> NoRequest,
     base |-> NoFile, mid |-> NoFile, seen |-> NoFile, tree |-> EmptySchema,
     before |-> NoFile, loaded |-> 0, persisted |-> 0,
     res |-> [status |-> 200, error |-> "none", out |-> EmptyStr]]

Init ==
    /\ file \in InitFiles
    /\ prevFile = file
    /\ lastOp = "none"
    /\ lastName = EmptyStr
    /\ lastReq = NoRequest
    /\ lastRes = [status |-> 200, error |-> "none", out |-> EmptyStr]
    /\ workers = [w \in Workers |-> Idle]

Call(op, cube_name, raw, result) ==
    \E r \in {result} :
    /\ Len(r.file.root.kids) <= MaxCubes
    /\ file' = r.file
    /\ prevFile' = file
    /\ lastOp' = op
    /\ lastName' = cube_name
    /\ lastReq' = raw
    /\ lastRes' = r.res
    /\ UNCHANGED workers

\* GET /application/enumerate
EnumerateCubes == Call("enumerate", EmptyStr, NoRequest, enumerate_cubes(file))

\* GET /cubes/{cube_name}
GetCubeByName ==
    \E n \in CubeNames : Call("get", n, NoRequest, get_cube_by_name(file, n))

\* POST /cubes/create
CreateCube ==
    \E raw \in Requests :
        Call("create", raw.cube_name, raw,
             IF ValidRequest(raw) THEN create_cube(file, CreateCubeRequest(raw))
             ELSE RequestValidationError(file))

\* DELETE /cubes/{cube_name}
DeleteCube ==
    \E n \in CubeNames : Call("delete", n, NoRequest, delete_cube(file, n))

\* PUT /cubes/{cube_name}
UpdateCube ==
    \E n \in CubeNames, raw \in UpdateRequests :
        Call("update", n, raw,
             IF ValidRequest(raw) THEN update_cube(file, n, CreateCubeRequest(raw))
             ELSE RequestValidationError(file))

Next == EnumerateCubes \/ GetCubeByName \/ CreateCube \/ DeleteCube \/ UpdateCube

Spec == Init /\ [][Next]_vars

-----------------------------------------------------------------------------
(* Concurrent callers.  The CubeManager holds no lock and keeps no state   *)
(* but the file path: callers in different threads or server processes run *)
(* its methods side by side on the same file.  A call is followed through  *)
(* its steps on the file: the load (with everything the method does on the *)
(* loaded tree) and the write.                                             *)

\* the request bodies of the concurrent creates
ConcRequests == {Small(NameA), Large(NameB)}

\* the concurrent updates: the cube named and the request body
ConcUpdates ==
    {[name |-> NameA, req |-> Large(NameA)], [name |-> NameB, req |-> Large(NameB)]}

Max(S) == CHOOSE n \in S : \A m \in S : m <= n

\* the place of the next load or write in the order of all of them
Now == 1 + Max({workers[w].loaded : w \in Workers} \cup
               {workers[w].persisted : w \in Workers})

\* create_cube up to the write: load the document, look for the name, build
\* the cube and format the tree.  The create phase of an update_cube runs
\* the same code on the body of the update.
CreateLoad(w) ==
    /\ workers[w].pc \in {"idle", "create"}
    /\ \E raw \in (IF workers[w].pc = "create" THEN {workers[w].req} ELSE ConcRequests) :
       \E r \in {create_cube(file, CreateCubeRequest(raw))} :
           workers' = [workers EXCEPT ![w] =
               [@ EXCEPT !.pc = IF r.res.status = 200 THEN "write" ELSE "done",
                         !.op = IF @ = "none" THEN "create" ELSE @,
                         !.name = IF workers[w].pc = "idle" THEN raw.cube_name ELSE @,
                         !.req = raw,
                         !.seen = file,
                         !.tree = r.file.root,
                         !.loaded = Now,
                         !.res = r.res]]
    /\ UNCHANGED <<file, lastOp, lastName, lastReq, lastRes, prevFile>>

\* the write of create_cube and its return: the response prepared by the
\* load is returned when the write succeeds, a write error when it fails
CreateWrite(w) ==
    /\ workers[w].pc = "write"
    /\ \E outcome \in WriteOutcomes :
         /\ file' = tree_write(file, workers[w].tree, outcome)
         /\ workers' = [workers EXCEPT ![w] =
               [@ EXCEPT !.pc = "done",
                         !.before = file,
                         !.persisted = Now,
                         !.res = IF outcome = "written" THEN @
                                 ELSE WriteError(file).res]]
    /\ UNCHANGED <<lastOp, lastName, lastReq, lastRes, prevFile>>

\* the delete phase of update_cube: delete_cube(cube_name), whose exception
\* ends the update; the create phase follows when it returns
UpdateDelete(w) ==
    /\ workers[w].pc = "idle"
    /\ \E u \in ConcUpdates :
       \E r \in {delete_cube(file, u.name)} :
         /\ file' = r.file
         /\ workers' = [workers EXCEPT ![w] =
               [@ EXCEPT !.pc = IF r.res.status = 200 THEN "create" ELSE "done",
                         !.op = "update",
                         !.name = u.name,
                         !.req = u.req,
                         !.base = file,
                         !.mid = r.file,
                         !.loaded = Now,
                         !.res = r.res]]
    /\ UNCHANGED <<lastOp, lastName, lastReq, lastRes, prevFile>>

\* the cube names of the concurrent get_cube_by_name calls
ConcNames == {NameA, NameB}

\* get_cube_by_name(cube_name) by a concurrent caller
ReadCube(w) ==
    /\ workers[w].pc = "idle"
    /\ \E n \in ConcNames :
       \E r \in {get_cube_by_name(file, n)} :
         /\ file' = r.file
         /\ workers' = [workers EXCEPT ![w] =
               [@ EXCEPT !.pc = "done", !.op = "get", !.name = n, !.seen = file,
                         !.loaded = Now, !.res = r.res]]
    /\ UNCHANGED <<lastOp, lastName, lastReq, lastRes, prevFile>>

\* enumerate_cubes() by a concurrent caller
ReadNames(w) ==
    /\ workers[w].pc = "idle"
    /\ \E r \in {enumerate_cubes(file)} :
         /\ file' = r.file
         /\ workers' = [workers EXCEPT ![w] =
               [@ EXCEPT !.pc = "done", !.op = "enumerate", !.seen = file,
                         !.loaded = Now, !.res = r.res]]
    /\ UNCHANGED <<lastOp, lastName, lastReq, lastRes, prevFile>>

NextConc ==
    \E w \in Workers :
        \/ CreateLoad(w)
        \/ CreateWrite(w)
        \/ UpdateDelete(w)
        \/ ReadCube(w)
        \/ ReadNames(w)

SpecConc == Init /\ [][NextConc]_vars

-----------------------------------------------------------------------------
(* Vocabulary of the properties *)

\* the cubes of a persisted document, in document order
CubesOf(f) == SelectSeq(f.root.kids, LAMBDA e : e.tag = "Cube")

NameOf(cube) == GetAttr(cube, "name", UnnamedCube)

NamesOf(f) == [i \in 1..Len(CubesOf(f)) |-> NameOf(CubesOf(f)[i])]

\* the document holds a cube that carries the name n
Carries(f, n) == f.exists /\ \E i \in 1..Len(CubesOf(f)) : NameOf(CubesOf(f)[i]) = n

\* an element without its layout whitespace
RECURSIVE Content(_)
Content(elem) ==
    [tag |-> elem.tag, attrib |-> elem.attrib,
     kids |-> [i \in 1..Len(elem.kids) |-> Content(elem.kids[i])]]

Contents(cubes) == [i \in 1..Len(cubes) |-> Content(cubes[i])]

\* the cubes of f that do not carry the name n, in document order
Others(f, n) == Contents(SelectSeq(CubesOf(f), LAMBDA e : NameOf(e) # n))

Created == lastOp = "create" /\ lastRes.status = 200

\* C1: delete_cube(n) of a name a cube carries succeeds and returns n;
\* afterwards get_cube_by_name(n) is NotFound, enumerate_cubes() counts one
\* cube less and the other cubes are present in their previous order.
C1_DeleteRemovesCube ==
    (lastOp = "delete" /\ Carries(prevFile, lastName)) =>
        /\ lastRes.status = 200
        /\ lastRes.out.cube_name = lastName
        /\ get_cube_by_name(file, lastName).res.status = 404
        /\ enumerate_cubes(file).res.out.count
               = enumerate_cubes(prevFile).res.out.count - 1
        /\ Others(file, lastName) = Others(prevFile, lastName)

\* C2: create_cube(req) on a document that holds a cube named req.cube_name
\* fails with Conflict (400) and leaves the persisted document unchanged.
C2_DuplicateCreateConflicts ==
    (lastOp = "create" /\ ValidRequest(lastReq) /\ Carries(prevFile, lastReq.cube_name)) =>
        /\ lastRes.status = 400
        /\ lastRes.error = "Conflict"
        /\ file = prevFile

\* C3: after a successful create_cube(req) enumerate_cubes() returns the
\* names it returned before, in the same order, followed by req.cube_name,
\* the new cube is the last cube and every earlier cube keeps its content.
C3_CreateAppendsLast ==
    Created =>
        /\ enumerate_cubes(file).res.out.cubes
               = Append(enumerate_cubes(prevFile).res.out.cubes, lastReq.cube_name)
        /\ Len(CubesOf(file)) = Len(CubesOf(prevFile)) + 1
        /\ NameOf(CubesOf(file)[Len(CubesOf(file))]) = lastReq.cube_name
        /\ SubSeq(Contents(CubesOf(file)), 1, Len(CubesOf(prevFile)))
               = Contents(CubesOf(prevFile))

\* a create succeeded on a document that already held two cubes
C3_Witness == Created /\ Len(CubesOf(prevFile)) = 2

\* C4: update_cube(name, req) that renames an existing cube to a free name
\* succeeds and leaves no cube called name and exactly one cube called
\* req.cube_name, built from req; all other cubes are untouched.
C4_UpdateRenames ==
    (/\ lastOp = "update" /\ ValidRequest(lastReq)
     /\ Carries(prevFile, lastName)
     /\ lastReq.cube_name # lastName
     /\ ~Carries(prevFile, lastReq.cube_name)) =>
        /\ lastRes.status = 200
        /\ ~Carries(file, lastName)
        /\ Contents(SelectSeq(CubesOf(file), LAMBDA e : NameOf(e) = lastReq.cube_name))
               = <<Content(CubeElem(CreateCubeRequest(lastReq)))>>
        /\ Others(file, lastReq.cube_name) = Others(prevFile, lastName)

\* C5: update_cube(name, req) where name and req.cube_name both exist and
\* differ fails with Conflict (400); afterwards the cube called name is
\* gone, no cube built from req was added and the cube called
\* req.cube_name is unchanged.
C5_UpdateOntoExistingName ==
    (/\ lastOp = "update" /\ ValidRequest(lastReq)
     /\ Carries(prevFile, lastName)
     /\ Carries(prevFile, lastReq.cube_name)
     /\ lastReq.cube_name # lastName) =>
        /\ lastRes.status = 400
        /\ lastRes.error = "Conflict"
        /\ ~Carries(file, lastName)
        /\ Others(file, lastName) = Others(prevFile, lastName)

EmptyShape(raw) ==
    \/ raw.cube_name = EmptyStr
    \/ raw.table_name = EmptyStr
    \/ raw.dimensions = <<>>
    \/ \E i \in 1..Len(raw.dimensions) :
           \/ raw.dimensions[i].hierarchies = <<>>
           \/ \E j \in 1..Len(raw.dimensions[i].hierarchies) :
                  raw.dimensions[i].hierarchies[j].levels = <<>>

\* C6: a create or update request with an empty cube_name, an empty
\* table_name, no dimension, a dimension without hierarchies or a hierarchy
\* without levels is rejected with a ValidationError and the persisted
\* document is unchanged.
C6_EmptyFieldsRejected ==
    (lastOp \in {"create", "update"} /\ EmptyShape(lastReq)) =>
        /\ lastRes.error = "ValidationError"
        /\ file = prevFile

\* C7: the cube names of every persisted document are pairwise distinct.
C7_NamesUnique ==
    file.exists =>
        \A i, j \in 1..Len(CubesOf(file)) :
            i # j => NameOf(CubesOf(file)[i]) # NameOf(CubesOf(file)[j])

\* C8: get_cube_by_name, delete_cube and update_cube with a name that no
\* cube of the document carries fail with NotFound (404), the message lists
\* the cube names of the document in document order, and the persisted
\* document is unchanged.
C8_UnknownNameNotFound ==
    (/\ lastOp \in {"get", "delete", "update"}
     /\ lastOp = "update" => ValidRequest(lastReq)
     /\ prevFile.exists
     /\ ~Carries(prevFile, lastName)) =>
        /\ lastRes.status = 404
        /\ lastRes.error = "NotFound"
        /\ lastRes.out = Str("Cube '") \o lastName
                             \o Str("' not found. Available cubes: ")
                             \o Join(Str(", "), NamesOf(prevFile))
        /\ file = prevFile

\* the element reflects the nesting and the order of the request: one
\* Table, the dimensions with their hierarchies and levels, the measures
Reflects(cube, raw) ==
    LET nd == Len(raw.dimensions)
        nm == Len(raw.measures)
    IN  /\ cube.tag = "Cube"
        /\ Len(cube.kids) = 1 + nd + nm
        /\ cube.kids[1].tag = "Table"
        /\ GetAttr(cube.kids[1], "name", None) = raw.table_name
        /\ cube.kids[1].kids = <<>>
        /\ \A i \in 1..nd :
               LET d == cube.kids[1 + i]
                   rd == raw.dimensions[i]
               IN  /\ d.tag = "Dimension"
                   /\ GetAttr(d, "name", None) = rd.name
                   /\ Len(d.kids) = Len(rd.hierarchies)
                   /\ \A j \in 1..Len(rd.hierarchies) :
                          LET h == d.kids[j]
                              rh == rd.hierarchies[j]
                          IN  /\ h.tag = "Hierarchy"
                              /\ Len(h.kids) = Len(rh.levels)
                              /\ \A k \in 1..Len(rh.levels) :
                                     /\ h.kids[k].tag = "Level"
                                     /\ h.kids[k].kids = <<>>
                                     /\ GetAttr(h.kids[k], "name", None) = rh.levels[k].name
                                     /\ GetAttr(h.kids[k], "column", None)
                                            = rh.levels[k].column
        /\ \A i \in 1..nm :
               LET m == cube.kids[1 + nd + i]
               IN  /\ m.tag = "Measure"
                   /\ m.kids = <<>>
                   /\ GetAttr(m, "name", None) = raw.measures[i].name
                   /\ GetAttr(m, "column", None) = raw.measures[i].column

\* C9: get_cube_by_name(req.cube_name) right after a successful
\* create_cube(req) returns a Cube with one Table named req.table_name, the
\* dimensions, hierarchies and levels of req in request order, then the
\* measures of req in request order, and nothing else.
C9_GetAfterCreateReflectsRequest ==
    Created =>
        LET got == get_cube_by_name(file, lastReq.cube_name).res
        IN  /\ got.status = 200
            /\ Reflects(got.out.xml, lastReq)

\* The optional attributes of the cube built last, where Supplied(o) says
\* when an optional string of the request counts as supplied.
OptionalFieldsFollow(cube, raw, Supplied(_)) ==
    LET nd == Len(raw.dimensions)
        Opt(elem, key, o) ==
            /\ HasAttr(elem, key) <=> Supplied(o)
            /\ HasAttr(elem, key) => GetAttr(elem, key, None) = o[1]
    IN  /\ \A i \in 1..nd :
               \A j \in 1..Len(raw.dimensions[i].hierarchies) :
                   LET h == cube.kids[1 + i].kids[j]
                       rh == raw.dimensions[i].hierarchies[j]
                   IN  /\ Opt(h, "name", rh.name)
                       /\ Opt(h, "allMemberName", rh.allMemberName)
                       /\ HasAttr(h, "hasAll")
                       /\ GetAttr(h, "hasAll", None)
                              = IF rh.hasAll = None \/ rh.hasAll = Some(TRUE)
                                THEN Str("true") ELSE Str("false")
                       /\ \A k \in 1..Len(rh.levels) :
                              LET l == h.kids[k]
                                  rl == rh.levels[k]
                              IN  /\ HasAttr(l, "uniqueMembers") <=> rl.uniqueMembers # None
                                  /\ rl.uniqueMembers = Some(TRUE) =>
                                         GetAttr(l, "uniqueMembers", None) = Str("true")
                                  /\ rl.uniqueMembers = Some(FALSE) =>
                                         GetAttr(l, "uniqueMembers", None) = Str("false")
                                  /\ GetAttr(l, "type", None)
                                         = IF rl.type = None THEN Str("String") ELSE rl.type[1]
        /\ \A i \in 1..Len(raw.measures) :
               LET m == cube.kids[1 + nd + i]
                   rm == raw.measures[i]
               IN  /\ Opt(m, "formatString", rm.formatString)
                   /\ GetAttr(m, "aggregator", None)
                          = IF rm.aggregator = None THEN Str("sum") ELSE rm.aggregator[1]

LastCube(f) == CubesOf(f)[Len(CubesOf(f))]

\* C10 as stated: each optional field is an attribute of the built cube
\* exactly when the request supplied a value, whatever the value (the empty
\* string included); hasAll is always written, "true" when unset; type is
\* "String" and aggregator "sum" when unset.
C10_OptionalFieldsWhenSupplied ==
    Created => OptionalFieldsFollow(LastCube(file), lastReq, LAMBDA o : o # None)

\* C10 amended: the optional strings (hierarchy name, allMemberName,
\* formatString) are attributes exactly when the request supplied a
\* non-empty string; uniqueMembers exactly when the request supplied true or
\* false; hasAll is always written, "true" when unset; type is "String" and
\* aggregator "sum" when unset.
C10_OptionalFieldsWhenNonEmpty ==
    Created =>
        OptionalFieldsFollow(LastCube(file), lastReq,
                             LAMBDA o : o # None /\ o[1] # EmptyStr)

\* a cube was built from a request that leaves optional fields out, supplies
\* some as "" and supplies uniqueMembers = false
C10_Witness == Created /\ lastReq = Large(NameA)

\* C11: a document written by a persisting operation is a fixed point of
\* load, _format_xml and write: writing it again gives the same file.
C11_FormatIdempotentOnPersisted ==
    Created => write(format_xml(parse_xml(file))) = file

\* a create has written a document that held a cube before
C11_Witness == Created /\ Len(CubesOf(file)) >= 2

\* C15: get_cube_by_name and enumerate_cubes leave the persisted document
\* as it was, whether they succeed or fail; enumerate_cubes returns the cube
\* names in document order and their number; get_cube_by_name returns an
\* element of the document as it is stored, the first cube that carries the
\* name when a cube carries it.
C15_ReadsAreReadOnly ==
    (lastOp \in {"get", "enumerate"}) =>
        /\ file = prevFile
        /\ (lastOp = "enumerate" /\ lastRes.status = 200) =>
               /\ lastRes.out.cubes = NamesOf(prevFile)
               /\ lastRes.out.count = Len(lastRes.out.cubes)
        /\ (lastOp = "get" /\ lastRes.status = 200) =>
               /\ \E i \in 1..Len(CubesOf(prevFile)) : lastRes.out.xml = CubesOf(prevFile)[i]
               /\ Carries(prevFile, lastName) =>
                      LET first == CHOOSE i \in 1..Len(CubesOf(prevFile)) :
                                       /\ NameOf(CubesOf(prevFile)[i]) = lastName
                                       /\ \A j \in 1..(i-1) :
                                              NameOf(CubesOf(prevFile)[j]) # lastName
                      IN  lastRes.out.xml = CubesOf(prevFile)[first]

\* a get returned a cube of a document that holds two cubes
C15_Witness ==
    lastOp = "get" /\ lastRes.status = 200 /\ Len(CubesOf(prevFile)) = 2

\* the layout the claim describes: an element at depth d with children has
\* the text code 2*(d+1), its children but the last the tail code 2*(d+1),
\* its last child the tail code 2*d
RECURSIVE LaidOut(_, _)
LaidOut(elem, d) ==
    Len(elem.kids) > 0 =>
        /\ elem.text = 2 * (d + 1)
        /\ \A j \in 1..Len(elem.kids) :
               /\ elem.kids[j].tail = IF j < Len(elem.kids) THEN 2 * (d + 1) ELSE 2 * d
               /\ LaidOut(elem.kids[j], d + 1)

\* C16: after _format_xml on a tree with blank text and tail everywhere,
\* every element with children has the text of the next depth, every child
\* but the last the tail of its own depth and the last child the tail of
\* its parent's depth, so that closing tags line up with their opening tags.
C16_FormatLayout == Created => LaidOut(file.root, 0)

-----------------------------------------------------------------------------
(* Properties of concurrent callers *)

Done(w) == workers[w].pc = "done"

\* no load and no write came after the write of w
WroteLast(w) ==
    /\ workers[w].persisted > 0
    /\ \A u \in Workers : workers[u].persisted <= workers[w].persisted

\* C12: a create whose write fails answers 500 with a write error and
\* leaves the file holding the complete old or the complete new document;
\* no concurrent reader fails to load the document.
C12_WriteFailureIsAtomic ==
    /\ \A w \in Workers :
           (Done(w) /\ workers[w].res.error = "WriteError") =>
               /\ workers[w].res.status = 500
               /\ WroteLast(w) =>
                      file \in {workers[w].before, write(workers[w].tree)}
    /\ \A w \in Workers :
           (Done(w) /\ workers[w].op \in {"get", "enumerate"}) =>
               workers[w].res.error # "ParseError"

\* two creates w and v with different names, absent from the documents both
\* loaded, each loaded before the other wrote, both answered 200, and the
\* write of v was the last
LostUpdate(w, v) ==
    /\ w # v
    /\ workers[w].op = "create" /\ workers[v].op = "create"
    /\ Done(w) /\ Done(v)
    /\ workers[w].res.status = 200 /\ workers[v].res.status = 200
    /\ workers[w].name # workers[v].name
    /\ \A f \in {workers[w].seen, workers[v].seen} :
           ~Carries(f, workers[w].name) /\ ~Carries(f, workers[v].name)
    /\ workers[w].loaded < workers[v].persisted
    /\ workers[v].loaded < workers[w].persisted
    /\ workers[w].persisted < workers[v].persisted
    /\ WroteLast(v)

\* C13: when two concurrent creates of different absent names both load
\* before either writes and both succeed, the final document is the one the
\* last writer wrote: it holds the last writer's cube and not the cube of
\* the other create, which reported success.
C13_LastWriterWins ==
    \A w, v \in Workers :
        LostUpdate(w, v) =>
            /\ file = write(workers[v].tree)
            /\ Carries(file, workers[v].name)
            /\ ~Carries(file, workers[w].name)
            /\ Len(CubesOf(file)) = Len(CubesOf(workers[v].seen)) + 1

C13_Witness == \E w, v \in Workers : LostUpdate(w, v)

\* C14: an update of an existing cube that keeps its name leaves, once its
\* delete phase is over, a document without that cube, which a
\* get_cube_by_name of the name or an enumerate_cubes then observes.
C14_UpdateWindowShowsCubeAbsent ==
    \A w \in Workers :
        (/\ workers[w].op = "update"
         /\ workers[w].req.cube_name = workers[w].name
         /\ Carries(workers[w].base, workers[w].name)) =>
            /\ ~Carries(workers[w].mid, workers[w].name)
            /\ get_cube_by_name(workers[w].mid, workers[w].name).res.status = 404
            /\ \A i \in 1..Len(enumerate_cubes(workers[w].mid).res.out.cubes) :
                   enumerate_cubes(workers[w].mid).res.out.cubes[i] # workers[w].name
            /\ \A r \in Workers :
                   (/\ workers[r].op = "get"
                    /\ workers[r].name = workers[w].name
                    /\ workers[r].loaded > workers[w].loaded
                    /\ workers[r].seen = workers[w].mid) =>
                       workers[r].res.status = 404

====
